---- MODULE Spec2Model ----
(***************************************************************************)
(* Model of app/static/js/ai-features.js: the DOMContentLoaded handler and *)
(* the event handlers it binds (report confirmation, mark-news-read,       *)
(* unread-count refresh, checklist persistence and progress bar).          *)
(*                                                                         *)
(* The page is a state machine.  The DOM the script reads and writes, the  *)
(* browser's localStorage, the requests in flight and the console are the  *)
(* state; every handler, and every continuation of a handler after an      *)
(* await, is one action.  The server and the network are the environment.  *)
(***************************************************************************)
EXTENDS Integers, FiniteSets, Sequences, TLC

VARIABLES
    loaded,        \* DOMContentLoaded has run on the current page
    required,      \* [Items -> BOOLEAN]  data-required="true" of each checkbox
    serverChecked, \* [Items -> BOOLEAN]  checked attribute as rendered by the server
    serverClasses, \* tier classes of every progress bar as rendered by the server
    hasBar,        \* [Cards -> BOOLEAN]  the card holds a .progress-bar
    checked,       \* [Items -> BOOLEAN]  item.checked
    bars,          \* [Cards -> [width, text, classes]]  the .progress-bar of a card
    storage,       \* localStorage: a function from the keys present to strings
    lastToggle,    \* history: per item, the state its last change event left it in
    hasReportBtn,  \* #generate-report-btn exists
    report,        \* the last click on #generate-report-btn: [clicked, confirmed, defaultPrevented]
    newsIds,       \* data-news-id of the .mark-news-read controls on the page
    newsBtn,       \* [newsIds -> BOOLEAN]  the control is attached to the document
    newsFaded,     \* [newsIds -> BOOLEAN]  .news-item carries opacity-50
    newsInDoc,     \* [newsIds -> BOOLEAN]  .news-item is in the document
    badge,         \* #news-badge: [present, text, hidden]
    requests,      \* fetch() calls whose handler has not resumed yet
    nextSeq,       \* number of fetch() calls issued by this page
    clicks,        \* number of mark-read clicks so far
    consoleErrors, \* console.error calls, per message
    serverUnread,  \* environment: the news items the server holds as unread
    allOk,         \* history: no request was rejected or answered non-2xx
    latestServed   \* history: seq and count of the latest-issued refresh served

checklistVars == <<required, serverChecked, serverClasses, hasBar, checked, bars,
                   storage, lastToggle>>
reportVars    == <<hasReportBtn, report>>
newsVars      == <<newsIds, newsBtn, newsFaded, newsInDoc, badge, clicks,
                   consoleErrors, serverUnread, allOk, latestServed>>
netVars       == <<requests, nextSeq>>
vars == <<loaded, checklistVars, reportVars, newsVars, netVars>>

(***************************************************************************)
(* Bounds of the model.                                                    *)
(***************************************************************************)
MaxNews == 2
MaxClicks == 2

(***************************************************************************)
(* The rendered checklist cards.  Identifiers are data-* attribute values, *)
(* i.e. arbitrary strings; an item is the pair <<checklistId, itemId>>.    *)
(* Card "e" is rendered without items.                                     *)
(***************************************************************************)
Cards == {"a", "a_b", "e"}
Items == {<<"a", "b_c">>, <<"a", "x">>, <<"a", "y">>, <<"a_b", "c">>}
ItemsOf(checklistId) == {it \in Items : it[1] = checklistId}
Tiers == {"bg-success", "bg-warning", "bg-danger"}

\* The nested families of required items a page is rendered with.
RequiredSets ==
    {rs \cup cs : rs \in {{}, {<<"a", "x">>}, {<<"a", "x">>, <<"a", "y">>},
                          ItemsOf("a")},
                  cs \in {{}, {<<"a_b", "c">>}}}

(***************************************************************************)
(* Numbers.  A JavaScript number that is a quotient is kept exactly, as a  *)
(* reduced fraction <<numerator, denominator>>; <<0, 0>> is NaN (0 / 0).   *)
(***************************************************************************)
RECURSIVE GCD(_, _)
GCD(m, n) == IF n = 0 THEN m ELSE GCD(n, m % n)

NaN == <<0, 0>>
Frac(n, d) == IF d = 0 THEN NaN ELSE <<n \div GCD(n, d), d \div GCD(n, d)>>

\* Math.round: the nearest integer, halves rounded up; NaN stays NaN.
MathRoundFloor(p) == IF p = NaN THEN NaN ELSE <<p[1] \div p[2], 1>>
MathRound(p) == IF p = NaN THEN NaN ELSE <<(2 * p[1] + p[2]) \div (2 * p[2]), 1>>

\* String(isChecked), as localStorage.setItem coerces its value.
BoolString(b) == IF b THEN "true" ELSE "false"

\* `checklist_${checklistId}_${itemId}`
Key(checklistId, itemId) == "checklist_" \o checklistId \o "_" \o itemId

\* localStorage.setItem(key, value)
SetItem(store, key, value) ==
    [k \in DOMAIN store \cup {key} |-> IF k = key THEN value ELSE store[k]]

(***************************************************************************)
(* updateChecklistProgress                                                 *)
(***************************************************************************)
\* (checkedItems / totalItems) * 100
Progress(checkedItems, totalItems) == Frac(100 * checkedItems, totalItems)

\* totalRequired > 0 ? (checkedRequired / totalRequired) * 100 : 100
RequiredProgressZero(checkedRequired, totalRequired) ==
    IF totalRequired > 0 THEN Frac(100 * checkedRequired, totalRequired) ELSE <<0, 1>>
RequiredProgress(checkedRequired, totalRequired) ==
    IF totalRequired > 0 THEN Frac(100 * checkedRequired, totalRequired) ELSE <<100, 1>>

\* classList.remove(the other two tiers); classList.add(tier)
SetTierAddOnly(classes, tier) == classes \cup {tier}
SetTier(classes, tier) == (classes \ (Tiers \ {tier})) \cup {tier}

\* the three-way threshold on requiredProgress
TierOf(requiredProgress) ==
    IF requiredProgress = <<100, 1>> THEN "bg-success"
    ELSE IF requiredProgress[1] >= 50 * requiredProgress[2] THEN "bg-warning"
    ELSE "bg-danger"

\* The bars after updateChecklistProgress(checklistId) on checkbox states chk.
UpdateChecklistProgress(bs, chk, checklistId) ==
    LET items           == ItemsOf(checklistId)
        requiredItems   == {it \in items : required[it]}
        totalItems      == Cardinality(items)
        checkedItems    == Cardinality({it \in items : chk[it]})
        checkedRequired == Cardinality({it \in requiredItems : chk[it]})
        totalRequired   == Cardinality(requiredItems)
        progress        == Progress(checkedItems, totalItems)
        requiredProgress == RequiredProgress(checkedRequired, totalRequired)
    IN  IF hasBar[checklistId]
        THEN [bs EXCEPT ![checklistId] =
                 [width   |-> progress,
                  text    |-> MathRound(progress),
                  classes |-> SetTier(bs[checklistId].classes,
                                      TierOf(requiredProgress))]]
        ELSE bs

\* Restoration of one checkbox from localStorage.
Restored(it) ==
    LET key == Key(it[1], it[2])
    IN  IF key \in DOMAIN storage THEN storage[key] = "true" ELSE checked[it]

\* The bars after the restoration loop has updated every card.
RECURSIVE UpdateAll(_, _, _)
UpdateAll(bs, chk, cards) ==
    IF cards = {} THEN bs
    ELSE LET c == CHOOSE x \in cards : TRUE
         IN  UpdateAll(UpdateChecklistProgress(bs, chk, c), chk, cards \ {c})

(***************************************************************************)
(* Requests                                                                *)
(***************************************************************************)
Post(seq, newsId) ==
    [seq |-> seq, kind |-> "POST", newsId |-> newsId, stage |-> "sent", n |-> 0]
Get(seq) ==
    [seq |-> seq, kind |-> "GET", newsId |-> 0, stage |-> "sent", n |-> 0]

\* The server-rendered page.
ServerBars ==
    [c \in Cards |-> [width |-> <<0, 1>>, text |-> <<0, 1>>,
                      classes |-> IF hasBar[c] THEN serverClasses ELSE {}]]
NoErrors ==
    [m \in {"Error marking news as read:", "Error updating news count:"} |-> 0]

(***************************************************************************)
(* Initial states: the page as served, before DOMContentLoaded.            *)
(***************************************************************************)
InitChecklistDom ==
    /\ \E rs \in RequiredSets : required = [it \in Items |-> it \in rs]
    /\ \E d \in BOOLEAN : serverChecked = [it \in Items |-> d]
    /\ serverClasses \in SUBSET Tiers
    /\ hasBar \in [Cards -> BOOLEAN]
    /\ checked = serverChecked
    /\ bars = ServerBars
    /\ storage = << >>
    /\ lastToggle = [it \in Items |-> "none"]

InitNewsDom(ids, btn, bdg) ==
    /\ hasReportBtn = btn
    /\ report = [clicked |-> FALSE, confirmed |-> FALSE, defaultPrevented |-> FALSE]
    /\ newsIds = ids
    /\ newsBtn = [n \in ids |-> TRUE]
    /\ newsFaded = [n \in ids |-> FALSE]
    /\ newsInDoc = [n \in ids |-> TRUE]
    /\ badge = [present |-> bdg, text |-> Cardinality(ids), hidden |-> ids = {}]
    /\ requests = {}
    /\ nextSeq = 0
    /\ clicks = 0
    /\ consoleErrors = NoErrors
    /\ serverUnread = ids
    /\ allOk = TRUE
    /\ latestServed = [seq |-> -1, n |-> 0]

\* A page of checklist cards, without news items.
InitChecklist ==
    /\ loaded = FALSE
    /\ InitChecklistDom
    /\ InitNewsDom({}, FALSE, FALSE)

\* One fixed rendering of the checklist cards.
FixedChecklistDom ==
    /\ required = [it \in Items |-> TRUE]
    /\ serverChecked = [it \in Items |-> FALSE]
    /\ serverClasses = {}
    /\ hasBar = [c \in Cards |-> TRUE]
    /\ checked = serverChecked
    /\ bars = ServerBars
    /\ storage = << >>
    /\ lastToggle = [it \in Items |-> "none"]

\* A page of news items, with or without the badge.
InitNews ==
    /\ loaded = FALSE
    /\ FixedChecklistDom
    /\ \E bdg \in BOOLEAN : InitNewsDom(1..MaxNews, FALSE, bdg)

\* A page with checklist cards and one news item, with or without the
\* report button.
InitReport ==
    /\ loaded = FALSE
    /\ FixedChecklistDom
    /\ \E btn \in BOOLEAN : InitNewsDom({1}, btn, TRUE)

(***************************************************************************)
(* Actions                                                                 *)
(***************************************************************************)
\* The DOMContentLoaded handler: binds the handlers, calls updateUnreadCount()
\* (which runs up to its fetch), restores every checkbox and updates every bar.
DOMContentLoaded ==
    /\ ~loaded
    /\ loaded' = TRUE
    /\ requests' = requests \cup {Get(nextSeq)}
    /\ nextSeq' = nextSeq + 1
    /\ checked' = [it \in Items |-> Restored(it)]
    /\ bars' = UpdateAll(bars, checked', Cards)
    /\ UNCHANGED <<required, serverChecked, serverClasses, hasBar, storage,
                   lastToggle, reportVars, newsVars>>

\* The change handler of a .checklist-item: the browser has flipped the box.
ChecklistChange(it) ==
    /\ loaded
    /\ LET checklistId == it[1]
           itemId      == it[2]
           isChecked   == ~checked[it]
           key         == Key(checklistId, itemId)
       IN  /\ checked' = [checked EXCEPT ![it] = isChecked]
           /\ storage' = SetItem(storage, key, BoolString(isChecked))
           /\ bars' = UpdateChecklistProgress(bars, checked', checklistId)
           /\ lastToggle' = [lastToggle EXCEPT ![it] = BoolString(isChecked)]
    /\ UNCHANGED <<loaded, required, serverChecked, serverClasses, hasBar,
                   reportVars, newsVars, netVars>>

\* The browser reloads the page: the DOM is the server's rendering again,
\* pending fetches are dropped, localStorage persists.
PageReload ==
    /\ loaded
    /\ loaded' = FALSE
    /\ checked' = serverChecked
    /\ bars' = ServerBars
    /\ requests' = {}
    /\ nextSeq' = 0
    /\ clicks' = 0
    /\ report' = [clicked |-> FALSE, confirmed |-> FALSE, defaultPrevented |-> FALSE]
    /\ newsBtn' = [n \in newsIds |-> TRUE]
    /\ newsFaded' = [n \in newsIds |-> FALSE]
    /\ newsInDoc' = [n \in newsIds |-> TRUE]
    /\ badge' = [badge EXCEPT !.text = Cardinality(newsIds), !.hidden = newsIds = {}]
    /\ consoleErrors' = NoErrors
    /\ allOk' = TRUE
    /\ latestServed' = [seq |-> -1, n |-> 0]
    /\ UNCHANGED <<required, serverChecked, serverClasses, hasBar, storage,
                   lastToggle, hasReportBtn, newsIds, serverUnread>>

\* The click handler of #generate-report-btn for one answer to confirm():
\* the value of e.defaultPrevented it leaves.
PreventDefaultInverted(confirmed) == confirmed
PreventDefault(confirmed) == ~confirmed

ReportClick ==
    /\ loaded
    /\ hasReportBtn
    /\ \E confirmed \in BOOLEAN :
           report' = [clicked |-> TRUE,
                      confirmed |-> confirmed,
                      defaultPrevented |-> PreventDefault(confirmed)]
    /\ UNCHANGED <<loaded, checklistVars, hasReportBtn, newsVars, netVars>>

\* The click handler of a .mark-news-read control, up to its await.
MarkReadClick(newsId) ==
    /\ loaded
    /\ newsBtn[newsId]
    /\ clicks < MaxClicks
    /\ clicks' = clicks + 1
    /\ requests' = requests \cup {Post(nextSeq, newsId)}
    /\ nextSeq' = nextSeq + 1
    /\ UNCHANGED <<loaded, checklistVars, reportVars, newsIds, newsBtn, newsFaded,
                   newsInDoc, badge, consoleErrors, serverUnread, allOk,
                   latestServed>>

\* Environment: the server answers a request, with a 2xx status or without.
ServerHandle(r) ==
    /\ r.stage = "sent"
    /\ \E ok \in BOOLEAN :
        /\ requests' = (requests \ {r}) \cup
              {[r EXCEPT !.stage = IF ok THEN "ok" ELSE "bad",
                         !.n = IF ok /\ r.kind = "GET"
                               THEN Cardinality(serverUnread) ELSE 0]}
        /\ serverUnread' = IF ok /\ r.kind = "POST"
                           THEN serverUnread \ {r.newsId} ELSE serverUnread
        /\ allOk' = (allOk /\ ok)
        /\ latestServed' = IF ok /\ r.kind = "GET" /\ r.seq > latestServed.seq
                           THEN [seq |-> r.seq, n |-> Cardinality(serverUnread)]
                           ELSE latestServed
    /\ UNCHANGED <<loaded, checklistVars, reportVars, newsIds, newsBtn, newsFaded,
                   newsInDoc, badge, clicks, consoleErrors, nextSeq>>

\* Environment: the network fails, the promise of fetch() is rejected.  The
\* server may have applied a mark-read whose response is lost.
NetworkFail(r) ==
    /\ r.stage = "sent"
    /\ requests' = (requests \ {r}) \cup {[r EXCEPT !.stage = "rejected"]}
    /\ allOk' = FALSE
    /\ \E applied \in BOOLEAN :
           serverUnread' = IF applied /\ r.kind = "POST"
                           THEN serverUnread \ {r.newsId} ELSE serverUnread
    /\ UNCHANGED <<loaded, checklistVars, reportVars, newsIds, newsBtn, newsFaded,
                   newsInDoc, badge, clicks, consoleErrors, latestServed, nextSeq>>

\* console.error(message, error)
Log(message) == [consoleErrors EXCEPT ![message] = @ + 1]

\* The mark-read handler resumes after await fetch(...).  On response.ok the
\* control looks up its .news-item with closest(); a control that is no
\* longer in the document has none, and the TypeError lands in the catch.
MarkReadResumeNoRefresh(r) ==
    /\ r.kind = "POST"
    /\ r.stage \in {"ok", "bad", "rejected"}
    /\ requests' = requests \ {r}
    /\ IF r.stage = "ok" /\ newsBtn[r.newsId]
       THEN /\ newsFaded' = [newsFaded EXCEPT ![r.newsId] = TRUE]
            /\ newsBtn' = [newsBtn EXCEPT ![r.newsId] = FALSE]
            /\ UNCHANGED <<consoleErrors, nextSeq>>
       ELSE /\ consoleErrors' = IF r.stage = "bad" THEN consoleErrors
                                ELSE Log("Error marking news as read:")
            /\ UNCHANGED <<newsFaded, newsBtn, nextSeq>>
    /\ UNCHANGED <<loaded, checklistVars, reportVars, newsIds, newsInDoc, badge,
                   clicks, serverUnread, allOk, latestServed>>
MarkReadResume(r) ==
    /\ r.kind = "POST"
    /\ r.stage \in {"ok", "bad", "rejected"}
    /\ IF r.stage = "ok" /\ newsBtn[r.newsId]
       THEN /\ newsFaded' = [newsFaded EXCEPT ![r.newsId] = TRUE]
            /\ newsBtn' = [newsBtn EXCEPT ![r.newsId] = FALSE]
            /\ requests' = (requests \ {r}) \cup {Get(nextSeq)}
            /\ nextSeq' = nextSeq + 1
            /\ UNCHANGED consoleErrors
       ELSE /\ consoleErrors' = IF r.stage = "bad" THEN consoleErrors
                                ELSE Log("Error marking news as read:")
            /\ requests' = requests \ {r}
            /\ UNCHANGED <<newsFaded, newsBtn, nextSeq>>
    /\ UNCHANGED <<loaded, checklistVars, reportVars, newsIds, newsInDoc, badge,
                   clicks, serverUnread, allOk, latestServed>>

\* The badge after the body of a 2xx response, data.news.length = n.
BadgeAfterAlwaysShown(b, n) == [b EXCEPT !.text = n, !.hidden = FALSE]
BadgeAfter(b, n) ==
    IF ~b.present THEN b
    ELSE IF n > 0 THEN [b EXCEPT !.text = n, !.hidden = FALSE]
    ELSE [b EXCEPT !.hidden = TRUE]

\* updateUnreadCount resumes after await fetch(...) and await response.json().
UnreadCountResume(r) ==
    /\ r.kind = "GET"
    /\ r.stage \in {"ok", "bad", "rejected"}
    /\ requests' = requests \ {r}
    /\ badge' = IF r.stage = "ok" THEN BadgeAfter(badge, r.n) ELSE badge
    /\ consoleErrors' = IF r.stage = "rejected"
                        THEN Log("Error updating news count:") ELSE consoleErrors
    /\ UNCHANGED <<loaded, checklistVars, reportVars, newsIds, newsBtn, newsFaded,
                   newsInDoc, clicks, serverUnread, allOk, latestServed, nextSeq>>

NextNews ==
    \/ DOMContentLoaded
    \/ \E newsId \in newsIds : MarkReadClick(newsId)
    \/ \E r \in requests : ServerHandle(r)
    \/ \E r \in requests : NetworkFail(r)
    \/ \E r \in requests : MarkReadResume(r)
    \/ \E r \in requests : UnreadCountResume(r)

SpecNews == InitNews /\ [][NextNews]_vars

NextReport ==
    \/ DOMContentLoaded
    \/ ReportClick
    \/ \E it \in Items : ChecklistChange(it)
    \/ \E newsId \in newsIds : MarkReadClick(newsId)

SpecReport == InitReport /\ [][NextReport]_vars

NextChecklist ==
    \/ DOMContentLoaded
    \/ \E it \in Items : ChecklistChange(it)
    \/ PageReload

SpecChecklist == InitChecklist /\ [][NextChecklist]_vars
(***************************************************************************)
(* Properties                                                              *)
(***************************************************************************)
RequiredOf(c) == {it \in ItemsOf(c) : required[it]}
CheckedOf(S) == Cardinality({it \in S : checked[it]})
TierClasses(c) == bars[c].classes \cap Tiers

\* A request leaves flight in this step: its handler resumes.
Consumed(r) == r \in requests /\ \A q \in requests' : q.seq # r.seq

\* C1: once the page has loaded, the bar of every card with a required item
\* carries exactly one tier class: bg-success iff required-progress = 100,
\* bg-warning iff 50 <= required-progress < 100, bg-danger iff it is < 50,
\* whatever classes the server rendered the bar with.
C1_TierMatchesRequiredProgress ==
    loaded =>
        \A c \in Cards :
            LET tr == Cardinality(RequiredOf(c))
                cr == CheckedOf(RequiredOf(c))
            IN  (hasBar[c] /\ tr > 0) =>
                    /\ Cardinality(TierClasses(c)) = 1
                    /\ ("bg-success" \in bars[c].classes) <=> (100 * cr = 100 * tr)
                    /\ ("bg-warning" \in bars[c].classes)
                           <=> (50 * tr <= 100 * cr /\ 100 * cr < 100 * tr)
                    /\ ("bg-danger" \in bars[c].classes) <=> (100 * cr < 50 * tr)

\* C1 witness: a bar rendered with all three tier classes, on a card with two
\* required items of which one is checked, carries bg-warning alone.
C1_Witness ==
    /\ loaded
    /\ serverClasses = Tiers
    /\ hasBar["a"]
    /\ RequiredOf("a") = {<<"a", "x">>, <<"a", "y">>}
    /\ CheckedOf(RequiredOf("a")) = 1
    /\ bars["a"].classes = {"bg-warning"}

\* C2: once the page has loaded, a card without required items has
\* required-progress 100 and its bar carries bg-success alone, whichever of
\* its items are checked.
C2_NoRequiredIsSuccess ==
    loaded =>
        \A c \in Cards :
            (hasBar[c] /\ RequiredOf(c) = {}) =>
                /\ RequiredProgress(CheckedOf(RequiredOf(c)),
                                    Cardinality(RequiredOf(c))) = <<100, 1>>
                /\ TierClasses(c) = {"bg-success"}

\* C2 witness: a card of three non-required items, one checked and two not,
\* whose bar was rendered bg-danger.
C2_Witness ==
    /\ loaded
    /\ hasBar["a"]
    /\ RequiredOf("a") = {}
    /\ CheckedOf(ItemsOf("a")) = 1
    /\ serverClasses = {"bg-danger"}
    /\ bars["a"].classes = {"bg-success"}

\* C3: once the page has loaded (again), every item that was toggled is in
\* the state its last toggle left it in, and every item never toggled is in
\* its server-rendered state.
C3_RoundTrip ==
    loaded =>
        \A it \in Items :
            IF lastToggle[it] = "none"
            THEN checked[it] = serverChecked[it]
            ELSE checked[it] = (lastToggle[it] = "true")

\* The label is the nearest integer to checked / total x 100, halves up.
LabelIsRounded(c) ==
    LET t == Cardinality(ItemsOf(c))
        k == CheckedOf(ItemsOf(c))
        L == bars[c].text
    IN  /\ L[2] = 1
        /\ 2 * L[1] * t - t <= 200 * k
        /\ 200 * k < 2 * L[1] * t + t

\* C6 (as stated): once the page has loaded, width and label of the bar of
\* every non-empty card both are round(checked / total x 100), and a further
\* updateChecklistProgress changes nothing.
C6_WidthAndLabelRounded ==
    loaded =>
        \A c \in Cards :
            (hasBar[c] /\ ItemsOf(c) # {}) =>
                /\ LabelIsRounded(c)
                /\ bars[c].width = bars[c].text
                /\ UpdateChecklistProgress(bars, checked, c) = bars

\* C6 (amended): once the page has loaded, the label of the bar of every
\* non-empty card is round(checked / total x 100), its width is the
\* unrounded checked / total x 100, and a further updateChecklistProgress
\* changes nothing.
C6_LabelRoundedWidthExact ==
    loaded =>
        \A c \in Cards :
            (hasBar[c] /\ ItemsOf(c) # {}) =>
                LET t == Cardinality(ItemsOf(c))
                    k == CheckedOf(ItemsOf(c))
                    w == bars[c].width
                IN  /\ LabelIsRounded(c)
                    /\ w[2] > 0
                    /\ w[1] * t = 100 * k * w[2]
                    /\ UpdateChecklistProgress(bars, checked, c) = bars

\* C6 witness: two of three items checked: the label is 67, the width 200/3.
C6_Witness ==
    /\ loaded
    /\ hasBar["a"]
    /\ CheckedOf(ItemsOf("a")) = 2
    /\ bars["a"].text = <<67, 1>>
    /\ bars["a"].width = <<200, 3>>

\* C10: a change event on an item writes the entry of that item with the
\* new state, leaves the stored value of every other item and the bar of
\* every other card as they were; no two items share a storage key.
C10_ChangeFrame ==
    [][\A it \in Items :
          (loaded /\ loaded' /\ checked'[it] # checked[it]) =>
              /\ Key(it[1], it[2]) \in DOMAIN storage'
              /\ storage'[Key(it[1], it[2])] = BoolString(checked'[it])
              /\ \A o \in Items \ {it} :
                    LET k == Key(o[1], o[2])
                    IN  /\ k # Key(it[1], it[2])
                        /\ (k \in DOMAIN storage') <=> (k \in DOMAIN storage)
                        /\ k \in DOMAIN storage => storage'[k] = storage[k]
              /\ \A c \in Cards \ {it[1]} : bars'[c] = bars[c]]_vars

C5_BadgeTextIsCount ==
    [][\A r \in requests :
          (Consumed(r) /\ r.kind = "GET" /\ r.stage = "ok" /\ badge.present) =>
              /\ badge'.text = r.n
              /\ badge'.hidden <=> (r.n = 0)]_vars

\* C5 (amended): after a refresh whose GET succeeds with n entries: if n > 0
\* the badge's text is n and the badge is visible; if n = 0 the badge is
\* hidden and its text is what it was.
C5_BadgeShowsPositiveCount ==
    [][\A r \in requests :
          (Consumed(r) /\ r.kind = "GET" /\ r.stage = "ok" /\ badge.present) =>
              IF r.n > 0
              THEN badge'.text = r.n /\ ~badge'.hidden
              ELSE badge'.hidden /\ badge'.text = badge.text]_vars

\* C5 witness: every item is read on the server, the refresh has hidden the
\* badge, and the badge still holds a positive count.
C5_Witness ==
    /\ badge.present
    /\ badge.hidden
    /\ badge.text > 0
    /\ serverUnread = {}

\* C7: a mark-read POST or a refresh GET that is rejected or answered non-2xx
\* is logged once, leaves the news items, their controls and the badge as
\* they were, and issues no further request.
C7_FailuresLogged ==
    [][\A r \in requests :
          (Consumed(r) /\ r.stage \in {"bad", "rejected"}) =>
              LET m == IF r.kind = "POST" THEN "Error marking news as read:"
                       ELSE "Error updating news count:"
              IN  /\ consoleErrors'[m] = consoleErrors[m] + 1
                  /\ UNCHANGED <<newsBtn, newsFaded, newsInDoc, badge>>
                  /\ requests' = requests \ {r}]_vars

\* C8: a click on the report button leaves the default action to happen iff
\* confirm() was accepted, and changes neither the requests in flight nor
\* localStorage.
C8_ReportGuard ==
    [][report' # report =>
          /\ report'.clicked
          /\ (~report'.defaultPrevented) <=> report'.confirmed
          /\ UNCHANGED <<requests, storage>>]_vars

\* C8 witness: a declined click has suppressed the default action, with a
\* request in flight and entries in localStorage.
C8_Witness ==
    /\ report.clicked
    /\ ~report.confirmed
    /\ report.defaultPrevented
    /\ requests # {}
    /\ DOMAIN storage # {}

\* C9: when no request is in flight and none has failed, the badge shows
\* the count the server gave to the refresh issued last.
C9_BadgeShowsLatestRefresh ==
    (loaded /\ requests = {} /\ allOk /\ badge.present) =>
        IF latestServed.n > 0
        THEN badge.text = latestServed.n /\ ~badge.hidden
        ELSE badge.hidden
====
